---- MODULE Spec2Model ----
(***************************************************************************)
(* Task logger: the relational store behind query_scripts.py (categories,  *)
(* tags, activities, activity_tags), the operations of query_scripts.py    *)
(* that read and write it, and the properties stated of them.              *)
(*                                                                         *)
(* Times are whole seconds (a timestamp is the number of seconds since the *)
(* midnight that starts day 0), names and notes are sequences of           *)
(* characters, an optional argument is <<>> (None) or <<v>> (the value v). *)
(***************************************************************************)
EXTENDS Integers, Sequences, FiniteSets, TLC

VARIABLES
    categories,     \* rows of table categories: [id, name]
    tags,           \* rows of table tags: [id, category_id, name]
    activities,     \* rows of table activities: [id, start_time, end_time, category_id, notes]
    activity_tags,  \* rows of table activity_tags: [activity_id, tag_id]
    seq,            \* last value handed out by each table's id sequence
    call,           \* the name of the last operation called
    args,           \* the arguments it was called with
    result          \* what that call did: [raised, value]

vars == <<categories, tags, activities, activity_tags, seq, call, args, result>>

db == <<categories, tags, activities, activity_tags, seq>>

(***************************************************************************)
(* Bounds of the model.                                                    *)
(***************************************************************************)
MaxActivities == 2
MaxChain == 6
MaxReportActivities == 2
MaxCascadeActivities == 3
MaxCategories == 2
MaxTags == 2
MaxTaggedActivities == 2

MaxCliActivities == 2
MaxDurationActivities == 2
MaxTagReportActivities == 2
MaxRaceRows == 2

(***************************************************************************)
(* Optional values, strings, arithmetic.                                   *)
(***************************************************************************)
None ==
    <<>>

Some(v) ==
    <<v>>

Opt(S) ==
    {None} \cup {Some(v) : v \in S}

\* Python truthiness of an optional string: None and "" are falsy.
Truthy(o) ==
    o # None /\ o[1] # <<>>

RECURSIVE LStrip(_)
LStrip(s) ==
    IF s # <<>> /\ Head(s) = " " THEN LStrip(Tail(s)) ELSE s

RECURSIVE RStrip(_)
RStrip(s) ==
    IF s # <<>> /\ s[Len(s)] = " " THEN RStrip(SubSeq(s, 1, Len(s) - 1)) ELSE s

\* str.strip(): leading and trailing whitespace removed.
Strip(s) ==
    RStrip(LStrip(s))

LowerChar(c) ==
    CASE c = "A" -> "a"
      [] c = "B" -> "b"
      [] c = "X" -> "x"
      [] c = "Y" -> "y"
      [] c = "E" -> "e"
      [] c = "S" -> "s"
      [] c = "N" -> "n"
      [] OTHER -> c

\* SQL LOWER(): every letter to lower case.
Lower(s) ==
    [i \in 1..Len(s) |-> LowerChar(s[i])]

\* round(x / y) for x >= 0 and y > 0: the quotient to the nearest integer,
\* which int() does not compute.
RoundDiv(x, y) ==
    (2 * x + y) \div (2 * y)

\* int(x / y) of Python for y > 0: the quotient truncated towards zero.
TruncDiv(x, y) ==
    IF x >= 0 THEN x \div y ELSE -((-x) \div y)

\* h:mm on day 0, in seconds.
Hm(h, m) ==
    h * 3600 + m * 60

RECURSIVE SumOver(_, _)
SumOver(S, f) ==
    IF S = {} THEN 0
    ELSE LET x == CHOOSE y \in S : TRUE
         IN f[x] + SumOver(S \ {x}, f)

(***************************************************************************)
(* The schema (ddl.sql): keys, uniqueness, cascades.                       *)
(***************************************************************************)
CategoryIds ==
    {c.id : c \in categories}

TagIds ==
    {t.id : t \in tags}

ActivityIds ==
    {a.id : a \in activities}

\* categories.name is unique, compared without case.
CategoryNameTaken(name, except_id) ==
    \E c \in categories : c.id # except_id /\ Lower(c.name) = Lower(name)

\* tags.name is unique within its category, compared without case.
TagNameTaken(category_id, name, except_id) ==
    \E t \in tags :
        /\ t.id # except_id
        /\ t.category_id = category_id
        /\ Lower(t.name) = Lower(name)

\* ON DELETE CASCADE from categories: its tags, its activities, their associations.
CascadeCategory(category_id) ==
    LET goneTags == {t \in tags : t.category_id = category_id}
        goneActs == {a \in activities : a.category_id = category_id}
    IN /\ categories' = {c \in categories : c.id # category_id}
       /\ tags' = tags \ goneTags
       /\ activities' = activities \ goneActs
       /\ activity_tags' = {at \in activity_tags :
                               /\ at.activity_id \notin {a.id : a \in goneActs}
                               /\ at.tag_id \notin {t.id : t \in goneTags}}

\* ON DELETE CASCADE from tags: the associations that reference the tag.
CascadeTag(tag_id) ==
    /\ tags' = {t \in tags : t.id # tag_id}
    /\ activity_tags' = {at \in activity_tags : at.tag_id # tag_id}

\* ON DELETE CASCADE from activities: the associations of the activity.
CascadeActivity(activity_id) ==
    /\ activities' = {a \in activities : a.id # activity_id}
    /\ activity_tags' = {at \in activity_tags : at.activity_id # activity_id}

\* get_cursor: an exception inside the block rolls the transaction back and is
\* raised again; id sequences are not transactional and keep what they handed out.
Rollback(error, seqAfter) ==
    /\ UNCHANGED <<categories, tags, activities, activity_tags>>
    /\ seq' = seqAfter
    /\ result' = [raised |-> error, value |-> None]

Returns(v) ==
    result' = [raised |-> "none", value |-> v]

\* The four tables, as the statements of one unit of work read and write them.
Tables ==
    [categories |-> categories, tags |-> tags, activities |-> activities,
     activity_tags |-> activity_tags]

\* A unit of work that commits what its statements wrote before one of them
\* raised; get_cursor rolls back instead.
GetCursorKeepingWrites(work, error, seqAfter, value) ==
    /\ categories' = work.categories
    /\ tags' = work.tags
    /\ activities' = work.activities
    /\ activity_tags' = work.activity_tags
    /\ seq' = seqAfter
    /\ result' = [raised |-> error, value |-> IF error = "none" THEN value ELSE None]

\* with get_cursor(write=True): work is the tables as the statements of the
\* block have written them when the block ends or when a statement raises
\* error. The block's end commits work; a raise rolls back and is raised again.
GetCursor(work, error, seqAfter, value) ==
    IF error # "none"
    THEN Rollback(error, seqAfter)
    ELSE /\ categories' = work.categories
         /\ tags' = work.tags
         /\ activities' = work.activities
         /\ activity_tags' = work.activity_tags
         /\ seq' = seqAfter
         /\ Returns(value)

(***************************************************************************)
(* Overlap checking.                                                       *)
(***************************************************************************)
OverlapLimit == 5

\* ORDER BY id LIMIT n, which check_overlap_range does not use.
RECURSIVE OrderByIdLimit(_, _)
OrderByIdLimit(rows, n) ==
    IF n = 0 \/ rows = {} THEN {<<>>}
    ELSE LET first == {r \in rows : \A q \in rows : r[1] <= q[1]}
         IN UNION {{<<r>> \o rest : rest \in OrderByIdLimit(rows \ {r}, n - 1)} :
                   r \in first}

\* ORDER BY start_time LIMIT n over a set of rows <<id, start_time, end_time>>:
\* every sequence the query may return (rows with equal start_time come in any order).
RECURSIVE OrderByStartLimit(_, _)
OrderByStartLimit(rows, n) ==
    IF n = 0 \/ rows = {} THEN {<<>>}
    ELSE LET first == {r \in rows : \A q \in rows : r[2] <= q[2]}
         IN UNION {{<<r>> \o rest : rest \in OrderByStartLimit(rows \ {r}, n - 1)} :
                   r \in first}

\* WHERE start_time <= %s AND end_time >= %s, which counts touching intervals
\* and which check_overlap_range does not use.
OverlapRowsTouching(start_time, end_time, exclude_id) ==
    {<<a.id, a.start_time, a.end_time>> :
        a \in {b \in activities :
                  /\ b.start_time <= end_time
                  /\ b.end_time >= start_time
                  /\ (exclude_id = None \/ b.id # exclude_id[1])}}

\* WHERE start_time < %s AND end_time > %s [AND id != %s], bound to (end, start[, exclude]).
OverlapRows(start_time, end_time, exclude_id) ==
    {<<a.id, a.start_time, a.end_time>> :
        a \in {b \in activities :
                  /\ b.start_time < end_time
                  /\ b.end_time > start_time
                  /\ (exclude_id = None \/ b.id # exclude_id[1])}}

\* check_overlap_range: the possible values of cursor.fetchall().
CheckOverlapRange(start_time, end_time, exclude_id) ==
    OrderByStartLimit(OverlapRows(start_time, end_time, exclude_id), OverlapLimit)

CheckOverlapRangeCall(start_time, end_time, exclude_id) ==
    /\ \E rows \in CheckOverlapRange(start_time, end_time, exclude_id) : Returns(rows)
    /\ call' = "check_overlap_range" /\ args' = [start_time |-> start_time,
                end_time |-> end_time, exclude_id |-> exclude_id]
    /\ UNCHANGED db

(***************************************************************************)
(* Activities.                                                             *)
(***************************************************************************)
\* The INSERT ... ON CONFLICT DO NOTHING loop of log_activity and update_activity_tags.
TagRows(activity_id, tag_ids) ==
    {[activity_id |-> activity_id, tag_id |-> tag_ids[i]] : i \in 1..Len(tag_ids)}

TagIdsExist(tag_ids) ==
    \A i \in 1..Len(tag_ids) : tag_ids[i] \in TagIds

\* A loop of association inserts none of which raises: without the foreign key
\* of activity_tags every insert runs.
InsertsAll(activity_exists, tag_ids) ==
    Len(tag_ids)

\* How many of the association inserts of a loop over tag_ids run before one
\* raises: all of them, or those before the first that names a missing tag
\* (or none, when the activity itself is missing).
InsertsDone(activity_exists, tag_ids) ==
    LET bad == {i \in 1..Len(tag_ids) : ~activity_exists \/ tag_ids[i] \notin TagIds}
    IN IF bad = {} THEN Len(tag_ids)
       ELSE (CHOOSE i \in bad : \A j \in bad : i <= j) - 1

LogActivity(start_time, end_time, category_id, tag_ids, notes) ==
    LET activity_id == seq.activities + 1
        seqAfter == [seq EXCEPT !.activities = activity_id]
        row == [id |-> activity_id, start_time |-> start_time, end_time |-> end_time,
                category_id |-> category_id,
                notes |-> IF Truthy(notes) THEN notes ELSE None]
    IN /\ call' = "log_activity" /\ args' = [start_time |-> start_time,
                   end_time |-> end_time, category_id |-> category_id,
                   tag_ids |-> tag_ids, notes |-> notes]
       /\ IF category_id \notin CategoryIds
          THEN GetCursor(Tables, "ForeignKeyViolation", seqAfter, None)
          ELSE LET done == InsertsDone(TRUE, tag_ids)
                   work == [Tables EXCEPT
                               !.activities = @ \cup {row},
                               !.activity_tags =
                                   @ \cup TagRows(activity_id, SubSeq(tag_ids, 1, done))]
               IN GetCursor(work,
                            IF done < Len(tag_ids) THEN "ForeignKeyViolation" ELSE "none",
                            seqAfter,
                            <<activity_id, TruncDiv(end_time - start_time, 60)>>)

\* An update that checks its new interval against every stored activity, the
\* one being updated included, and raises on a conflict; update_activity does not.
UpdateActivityCheckingSelf(activity_id, start_time, end_time, category_id, notes) ==
    LET matched == {a \in activities : a.id = activity_id}
        conflicts == {<<b.id, b.start_time, b.end_time>> :
                         b \in {c \in activities :
                                   \E a \in matched :
                                       /\ start_time # None /\ end_time # None
                                       /\ c.start_time < end_time[1]
                                       /\ c.end_time > start_time[1]}}
    IN /\ call' = "update_activity" /\ args' = [activity_id |-> activity_id,
                   start_time |-> start_time, end_time |-> end_time,
                   category_id |-> category_id, notes |-> notes]
       /\ IF conflicts # {}
          THEN /\ UNCHANGED db
               /\ \E rows \in OrderByStartLimit(conflicts, OverlapLimit) :
                      result' = [raised |-> "ValueError", value |-> rows]
          ELSE /\ activities' = (activities \ matched)
                      \cup {[a EXCEPT !.start_time = IF start_time # None
                                                     THEN start_time[1] ELSE @,
                                      !.end_time = IF end_time # None
                                                   THEN end_time[1] ELSE @] :
                               a \in matched}
               /\ UNCHANGED <<categories, tags, activity_tags, seq>>
               /\ Returns(matched # {})

\* An update whose SET clause names all four columns, writing NULL for every
\* argument that was not provided; update_activity names only the provided ones.
UpdateActivityOverwriting(activity_id, start_time, end_time, category_id, notes) ==
    LET matched == {a \in activities : a.id = activity_id}
        updated(a) ==
            [a EXCEPT
                !.start_time = IF start_time # None THEN start_time[1] ELSE @,
                !.end_time = IF end_time # None THEN end_time[1] ELSE @,
                !.category_id = IF category_id # None THEN category_id[1] ELSE @,
                !.notes = IF notes # None /\ Strip(notes[1]) # <<>> THEN notes ELSE None]
    IN /\ call' = "update_activity" /\ args' = [activity_id |-> activity_id,
                   start_time |-> start_time, end_time |-> end_time,
                   category_id |-> category_id, notes |-> notes]
       /\ IF start_time = None /\ end_time = None /\ category_id = None /\ notes = None
          THEN UNCHANGED db /\ Returns(FALSE)
          ELSE IF matched # {} /\ category_id # None /\ category_id[1] \notin CategoryIds
          THEN Rollback("ForeignKeyViolation", seq)
          ELSE /\ activities' = (activities \ matched) \cup {updated(a) : a \in matched}
               /\ UNCHANGED <<categories, tags, activity_tags, seq>>
               /\ Returns(matched # {})

\* An update that returns True whenever the UPDATE statement ran, whatever its
\* row count; update_activity returns cursor.rowcount > 0.
UpdateActivityIgnoringRowcount(activity_id, start_time, end_time, category_id, notes) ==
    LET matched == {a \in activities : a.id = activity_id}
        updated(a) ==
            [a EXCEPT
                !.start_time = IF start_time # None THEN start_time[1] ELSE @,
                !.end_time = IF end_time # None THEN end_time[1] ELSE @,
                !.category_id = IF category_id # None THEN category_id[1] ELSE @,
                !.notes = IF notes = None THEN @
                          ELSE IF Strip(notes[1]) # <<>> THEN notes ELSE None]
    IN /\ call' = "update_activity" /\ args' = [activity_id |-> activity_id,
                   start_time |-> start_time, end_time |-> end_time,
                   category_id |-> category_id, notes |-> notes]
       /\ IF start_time = None /\ end_time = None /\ category_id = None /\ notes = None
          THEN UNCHANGED db /\ Returns(FALSE)
          ELSE IF matched # {} /\ category_id # None /\ category_id[1] \notin CategoryIds
          THEN Rollback("ForeignKeyViolation", seq)
          ELSE /\ activities' = (activities \ matched) \cup {updated(a) : a \in matched}
               /\ UNCHANGED <<categories, tags, activity_tags, seq>>
               /\ Returns(TRUE)

UpdateActivity(activity_id, start_time, end_time, category_id, notes) ==
    LET updated(a) ==
            [a EXCEPT
                !.start_time = IF start_time # None THEN start_time[1] ELSE @,
                !.end_time = IF end_time # None THEN end_time[1] ELSE @,
                !.category_id = IF category_id # None THEN category_id[1] ELSE @,
                !.notes = IF notes = None THEN @
                          ELSE IF Strip(notes[1]) # <<>> THEN notes ELSE None]
        matched == {a \in activities : a.id = activity_id}
    IN /\ call' = "update_activity" /\ args' = [activity_id |-> activity_id,
                   start_time |-> start_time, end_time |-> end_time,
                   category_id |-> category_id, notes |-> notes]
       /\ IF start_time = None /\ end_time = None /\ category_id = None /\ notes = None
          THEN UNCHANGED db /\ Returns(FALSE)
          ELSE IF matched # {} /\ category_id # None /\ category_id[1] \notin CategoryIds
          THEN Rollback("ForeignKeyViolation", seq)
          ELSE /\ activities' = (activities \ matched) \cup {updated(a) : a \in matched}
               /\ UNCHANGED <<categories, tags, activity_tags, seq>>
               /\ Returns(matched # {})

\* A set_tags that inserts without the DELETE; update_activity_tags deletes first.
UpdateActivityTagsAdding(activity_id, tag_ids) ==
    /\ call' = "update_activity_tags" /\ args' = [activity_id |-> activity_id,
                tag_ids |-> tag_ids]
    /\ LET done == InsertsDone(activity_id \in ActivityIds, tag_ids)
           work == [Tables EXCEPT
                       !.activity_tags =
                           @ \cup TagRows(activity_id, SubSeq(tag_ids, 1, done))]
       IN GetCursor(work,
                    IF done < Len(tag_ids) THEN "ForeignKeyViolation" ELSE "none",
                    seq, None)

UpdateActivityTags(activity_id, tag_ids) ==
    /\ call' = "update_activity_tags" /\ args' = [activity_id |-> activity_id,
                tag_ids |-> tag_ids]
    /\ LET done == InsertsDone(activity_id \in ActivityIds, tag_ids)
           work == [Tables EXCEPT
                       !.activity_tags =
                           {at \in @ : at.activity_id # activity_id}
                               \cup TagRows(activity_id, SubSeq(tag_ids, 1, done))]
       IN GetCursor(work,
                    IF done < Len(tag_ids) THEN "ForeignKeyViolation" ELSE "none",
                    seq, None)

\* format_time: strftime("%I:%M%p").lstrip("0").lower(), as <<hour, minute, "am" or "pm">>;
\* the date and the seconds are not in it.
FormatTime(ts) ==
    LET h == (ts % 86400) \div 3600
        m == (ts % 3600) \div 60
    IN <<IF h % 12 = 0 THEN 12 ELSE h % 12, m, IF h < 12 THEN "am" ELSE "pm">>

\* A delete with WHERE id <= %s, which delete_activity does not run.
DeleteActivityUpTo(activity_id) ==
    /\ call' = "delete_activity" /\ args' = [activity_id |-> activity_id]
    /\ IF activity_id \notin ActivityIds
       THEN UNCHANGED db /\ Returns(None)
       ELSE LET a == CHOOSE b \in activities : b.id = activity_id
            IN /\ activities' = {b \in activities : b.id > activity_id}
               /\ activity_tags' = {at \in activity_tags : at.activity_id > activity_id}
               /\ UNCHANGED <<categories, tags, seq>>
               /\ Returns(Some(<<FormatTime(a.start_time), FormatTime(a.end_time)>>))

\* delete_activity returns f"{format_time(start)} - {format_time(end)}".
DeleteActivity(activity_id) ==
    /\ call' = "delete_activity" /\ args' = [activity_id |-> activity_id]
    /\ IF activity_id \notin ActivityIds
       THEN UNCHANGED db /\ Returns(None)
       ELSE LET a == CHOOSE b \in activities : b.id = activity_id
            IN /\ CascadeActivity(activity_id)
               /\ UNCHANGED <<categories, tags, seq>>
               /\ Returns(Some(<<FormatTime(a.start_time), FormatTime(a.end_time)>>))

\* get_activity: None when activities_view has no row of that id, else the row.
\* Of the columns only those of the activities table and tag_ids are kept; the
\* view computes the others (category_name, duration_minutes, tags).
GetActivity(activity_id) ==
    /\ call' = "get_activity" /\ args' = [activity_id |-> activity_id]
    /\ UNCHANGED db
    /\ IF activity_id \notin ActivityIds
       THEN Returns(None)
       ELSE LET a == CHOOSE b \in activities : b.id = activity_id
            IN Returns(Some([id |-> a.id, start_time |-> a.start_time,
                             end_time |-> a.end_time, category_id |-> a.category_id,
                             notes |-> a.notes,
                             tag_ids |-> {at.tag_id : at \in
                                 {x \in activity_tags : x.activity_id = activity_id}}]))

(***************************************************************************)
(* Categories and tags.                                                    *)
(***************************************************************************)
\* A get-or-create that looks the name up as written, without LOWER();
\* create_category does not.
CreateCategoryCaseSensitive(name) ==
    LET stripped == Strip(name)
        existing == {c \in categories : c.name = stripped}
        category_id == seq.categories + 1
    IN /\ call' = "create_category" /\ args' = [name |-> name]
       /\ IF existing # {}
          THEN /\ UNCHANGED db
               /\ \E c \in existing : Returns(<<c.id, FALSE>>)
          ELSE /\ categories' = categories \cup {[id |-> category_id, name |-> stripped]}
               /\ seq' = [seq EXCEPT !.categories = category_id]
               /\ UNCHANGED <<tags, activities, activity_tags>>
               /\ Returns(<<category_id, TRUE>>)

CreateCategory(name) ==
    LET stripped == Strip(name)
        existing == {c \in categories : Lower(c.name) = Lower(stripped)}
        category_id == seq.categories + 1
    IN /\ call' = "create_category" /\ args' = [name |-> name]
       /\ IF existing # {}
          THEN /\ UNCHANGED db
               /\ \E c \in existing : Returns(<<c.id, FALSE>>)
          ELSE /\ categories' = categories \cup {[id |-> category_id, name |-> stripped]}
               /\ seq' = [seq EXCEPT !.categories = category_id]
               /\ UNCHANGED <<tags, activities, activity_tags>>
               /\ Returns(<<category_id, TRUE>>)

\* A rename that looks the new name up first and refuses when another row has
\* it; rename_category runs its UPDATE without a lookup.
RenameCategoryChecking(category_id, new_name) ==
    /\ call' = "rename_category" /\ args' = [category_id |-> category_id,
                new_name |-> new_name]
    /\ IF CategoryNameTaken(Strip(new_name), category_id)
       THEN UNCHANGED db /\ Returns(<<"Name already in use">>)
       ELSE /\ categories' = {IF c.id = category_id
                               THEN [c EXCEPT !.name = Strip(new_name)]
                               ELSE c : c \in categories}
            /\ UNCHANGED <<tags, activities, activity_tags, seq>>
            /\ Returns(<<"Category renamed to", new_name>>)

\* rename_category makes no check of its own. Whether the UPDATE fails on a name
\* another row has is decided by ddl.sql, which is not among the sources; the
\* written description has both (names unique; a rename onto a used name leaves
\* two rows), so both outcomes are kept.
RenameCategory(category_id, new_name) ==
    /\ call' = "rename_category" /\ args' = [category_id |-> category_id,
                new_name |-> new_name]
    /\ \/ /\ category_id \in CategoryIds
          /\ CategoryNameTaken(Strip(new_name), category_id)
          /\ Rollback("UniqueViolation", seq)
       \/ /\ categories' = {IF c.id = category_id
                             THEN [c EXCEPT !.name = Strip(new_name)]
                             ELSE c : c \in categories}
          /\ UNCHANGED <<tags, activities, activity_tags, seq>>
          /\ Returns(<<"Category renamed to", new_name>>)

\* SELECT COUNT(*) FROM activities without the WHERE, which delete_category
\* does not run.
CountAllActivities(category_id) ==
    Cardinality(activities)

\* The number delete_category reports: SELECT COUNT(*) ... WHERE category_id = %s,
\* run before the DELETE.
CountActivities(category_id) ==
    Cardinality({a \in activities : a.category_id = category_id})

DeleteCategory(category_id) ==
    /\ call' = "delete_category" /\ args' = [category_id |-> category_id]
    /\ IF category_id \notin CategoryIds
       THEN UNCHANGED db /\ Returns(<<"Category not found">>)
       ELSE LET c == CHOOSE d \in categories : d.id = category_id
            IN /\ CascadeCategory(category_id)
               /\ UNCHANGED seq
               /\ Returns(<<"Deleted category", c.name, CountActivities(category_id)>>)

CreateTag(category_id, name) ==
    LET stripped == Strip(name)
        existing == {t \in tags : /\ t.category_id = category_id
                                  /\ Lower(t.name) = Lower(stripped)}
        tag_id == seq.tags + 1
        seqAfter == [seq EXCEPT !.tags = tag_id]
    IN /\ call' = "create_tag" /\ args' = [category_id |-> category_id, name |-> name]
       /\ IF existing # {}
          THEN /\ UNCHANGED db
               /\ \E t \in existing : Returns(<<t.id, FALSE>>)
          ELSE IF category_id \notin CategoryIds
          THEN Rollback("ForeignKeyViolation", seqAfter)
          ELSE /\ tags' = tags \cup {[id |-> tag_id, category_id |-> category_id,
                                      name |-> stripped]}
               /\ seq' = seqAfter
               /\ UNCHANGED <<categories, activities, activity_tags>>
               /\ Returns(<<tag_id, TRUE>>)

RenameTag(tag_id, new_name) ==
    LET matched == {t \in tags : t.id = tag_id}
    IN /\ call' = "rename_tag" /\ args' = [tag_id |-> tag_id, new_name |-> new_name]
       /\ \/ /\ \E t \in matched : TagNameTaken(t.category_id, Strip(new_name), tag_id)
             /\ Rollback("UniqueViolation", seq)
          \/ /\ tags' = (tags \ matched)
                             \cup {[t EXCEPT !.name = Strip(new_name)] : t \in matched}
             /\ UNCHANGED <<categories, activities, activity_tags, seq>>
             /\ Returns(<<"Tag renamed to", new_name>>)

\* A delete_tag that also deletes the activities that carried the tag;
\* delete_tag does not.
DeleteTagWithActivities(tag_id) ==
    /\ call' = "delete_tag" /\ args' = [tag_id |-> tag_id]
    /\ IF tag_id \notin TagIds
       THEN UNCHANGED db /\ Returns(<<"Tag not found">>)
       ELSE LET t == CHOOSE u \in tags : u.id = tag_id
                tagged == {at.activity_id : at \in {x \in activity_tags : x.tag_id = tag_id}}
            IN /\ tags' = {u \in tags : u.id # tag_id}
               /\ activities' = {a \in activities : a.id \notin tagged}
               /\ activity_tags' = {at \in activity_tags :
                                       at.tag_id # tag_id /\ at.activity_id \notin tagged}
               /\ UNCHANGED <<categories, seq>>
               /\ Returns(<<"Deleted tag", t.name>>)

DeleteTag(tag_id) ==
    /\ call' = "delete_tag" /\ args' = [tag_id |-> tag_id]
    /\ IF tag_id \notin TagIds
       THEN UNCHANGED db /\ Returns(<<"Tag not found">>)
       ELSE LET t == CHOOSE u \in tags : u.id = tag_id
            IN /\ CascadeTag(tag_id)
               /\ UNCHANGED <<categories, activities, seq>>
               /\ Returns(<<"Deleted tag", t.name>>)

(***************************************************************************)
(* The command line: prompts and the commands that ask before they write.  *)
(***************************************************************************)
\* A yes/no prompt that takes an empty answer as yes, whatever its default.
PromptYesNoAccepting(val, default) ==
    LET v == Lower(Strip(val))
    IN IF v # <<>> THEN v \in {<<"y">>, <<"y", "e", "s">>} ELSE TRUE

\* prompt_yes_no: the stripped, lower-cased answer is y or yes; the default
\* when the answer is empty.
PromptYesNo(val, default) ==
    LET v == Lower(Strip(val))
    IN IF v # <<>> THEN v \in {<<"y">>, <<"y", "e", "s">>} ELSE default

\* What a prompt yields: the key binding of ctrl-z ends it with AbortInput
\* (no text, None here), otherwise the text typed.
AskYesNo(prompt_text, default, val, target) ==
    /\ call' = "prompt_yes_no"
    /\ args' = [prompt_text |-> prompt_text, default |-> default, val |-> val,
                target |-> target]
    /\ UNCHANGED db
    /\ IF val = None
       THEN result' = [raised |-> "AbortInput", value |-> None]
       ELSE Returns(PromptYesNo(val[1], default))

\* The command is at the prompt whose answer decides what it does next.
AtPrompt(prompt_text) ==
    call = "prompt_yes_no" /\ args.prompt_text = prompt_text

Answered(prompt_text, yes) ==
    /\ AtPrompt(prompt_text)
    /\ result.raised = "none"
    /\ result.value = yes

\* The command ends without a call of the store: its own ["Cancelled."], or
\* main's on AbortInput.
Cancelled(command) ==
    /\ call' = command /\ args' = <<>>
    /\ UNCHANGED db
    /\ Returns(<<"Cancelled.">>)

\* parse_time_string on a well-formed 24-hour h:mm: datetime.combine(base_date, time).
ParseTimeString(hm, base_date) ==
    base_date * 86400 + Hm(hm[1], hm[2])

\* prompt_time with a datetime default and required=False: an empty answer
\* (None here) returns the default as it is, date included; a typed time is
\* put on base_date.
PromptTime(val, base_date, default) ==
    IF val = None THEN default ELSE ParseTimeString(val[1], base_date)

\* An end-time prompt that takes the first answer, whatever the start time.
FirstAnswer(start_time, ends) ==
    IF ends = <<>> THEN None ELSE Some(Head(ends))

\* The end-time loop of cmd_log and cmd_edit: it asks again until the answer
\* is after the start time. None while no answer given so far is.
RECURSIVE PromptEndTime(_, _)
PromptEndTime(start_time, ends) ==
    IF ends = <<>> THEN None
    ELSE IF Head(ends) > start_time THEN Some(Head(ends))
    ELSE PromptEndTime(start_time, Tail(ends))

\* One pass of cmd_log's outer loop from a given start time: the end time is
\* asked on activity_date, then log_activity is called.
CmdLogEntry(activity_date, start_time, typed, category_id) ==
    LET ends == [i \in DOMAIN typed |-> ParseTimeString(typed[i], activity_date)]
        end_time == PromptEndTime(start_time, ends)
    IN /\ end_time # None
       /\ LogActivity(start_time, end_time[1], category_id, <<>>, None)

\* cmd_edit on a stored activity, with "Update category?" and "Update tags?"
\* answered No and the notes prompt left empty: the date, the start time and
\* the end time are asked, and update_activity gets the ones that changed.
CmdEdit(a, date_val, start_val, end_vals) ==
    LET start_dt == a.start_time
        end_dt == a.end_time
        current_date == start_dt \div 86400
        new_date == IF date_val = None THEN current_date ELSE date_val[1]
        new_start == PromptTime(start_val, new_date, start_dt)
        ends == [i \in DOMAIN end_vals |-> PromptTime(end_vals[i], new_date, end_dt)]
        new_end == PromptEndTime(new_start, ends)
    IN /\ new_end # None
       /\ UpdateActivity(a.id,
                         IF new_start # start_dt THEN Some(new_start) ELSE None,
                         IF new_end[1] # end_dt THEN new_end ELSE None,
                         None, None)

\* prompt_str with required=False: the stripped answer; the default when the
\* answer is empty and the default is truthy; else None.
PromptStr(val, default) ==
    IF Strip(val) # <<>> THEN Some(Strip(val))
    ELSE IF Truthy(default) THEN default
    ELSE None

\* The tags column of activities_view for one activity: its tag names in one
\* string, NULL when it has none.
RECURSIVE JoinNames(_)
JoinNames(names) ==
    IF names = <<>> THEN <<>>
    ELSE IF Len(names) = 1 THEN names[1]
    ELSE names[1] \o <<",", " ">> \o JoinNames(Tail(names))

RECURSIVE SortedIds(_)
SortedIds(ids) ==
    IF ids = {} THEN <<>>
    ELSE LET least == CHOOSE i \in ids : \A j \in ids : i <= j
         IN <<least>> \o SortedIds(ids \ {least})

ViewTags(activity_id) ==
    LET ids == SortedIds({at.tag_id : at \in {x \in activity_tags :
                                                 x.activity_id = activity_id}})
        names == [i \in DOMAIN ids |-> (CHOOSE t \in tags : t.id = ids[i]).name]
    IN IF ids = <<>> THEN None ELSE Some(JoinNames(names))

\* The row update_activity's UPDATE leaves: each provided column set, notes
\* that strip to nothing stored as NULL.
UpdatedRow(a, start_time, end_time, category_id, notes) ==
    [a EXCEPT
        !.start_time = IF start_time # None THEN start_time[1] ELSE @,
        !.end_time = IF end_time # None THEN end_time[1] ELSE @,
        !.category_id = IF category_id # None THEN category_id[1] ELSE @,
        !.notes = IF notes = None THEN @
                  ELSE IF Strip(notes[1]) # <<>> THEN notes ELSE None]

\* What cmd_edit takes for the activity's notes: column 6 of the row of
\* get_activities_by_date, which is the tags column of its SELECT list.
EditedNotesColumn(a) ==
    ViewTags(a.id)

\* update_activity_category(activity_id, category_id), as set_category is
\* described: the row with its category reassigned, nothing else touched.
UpdateActivityCategory(a, category_id) ==
    [a EXCEPT !.category_id = category_id]

\* cmd_edit as one command. ans holds the answers: date_val, start_val and
\* end_vals as for CmdEdit; category, the id picked after "Update category?"
\* was answered yes (None: answered no); tag_ids, the ids picked after "Update
\* tags?" was answered yes (None: answered no); notes_val, the text typed at
\* Notes; abort, the prompt at which ctrl-z ended the command ("times": before
\* "Update category?"; "tags": after update_activity_category; "notes": at
\* Notes; "none": not at all). Each call of the store commits on its own.
CmdEditCommand(a, ans) ==
    LET start_dt == a.start_time
        end_dt == a.end_time
        notes == EditedNotesColumn(a)
        current_date == start_dt \div 86400
        new_date == IF ans.date_val = None THEN current_date ELSE ans.date_val[1]
        new_start == PromptTime(ans.start_val, new_date, start_dt)
        ends == [i \in DOMAIN ans.end_vals |->
                    PromptTime(ans.end_vals[i], new_date, end_dt)]
        new_end == PromptEndTime(new_start, ends)
        recategorised == IF ans.category = None THEN a
                         ELSE UpdateActivityCategory(a, ans.category[1])
        retagged == IF ans.tag_ids = None THEN activity_tags
                    ELSE {at \in activity_tags : at.activity_id # a.id}
                             \cup TagRows(a.id, ans.tag_ids[1])
        new_notes == PromptStr(ans.notes_val, IF Truthy(notes) THEN notes ELSE Some(<<>>))
        update == [start_time |-> IF new_start # start_dt THEN Some(new_start) ELSE None,
                   end_time |-> IF new_end[1] # end_dt THEN new_end ELSE None,
                   notes |-> IF new_notes # notes THEN new_notes ELSE None]
        updated == IF update.start_time = None /\ update.end_time = None
                      /\ update.notes = None
                   THEN recategorised
                   ELSE UpdatedRow(recategorised, update.start_time, update.end_time,
                                   None, update.notes)
        written == CASE ans.abort = "times" -> a
                     [] ans.abort \in {"tags", "notes"} -> recategorised
                     [] OTHER -> updated
    IN /\ new_end # None
       /\ ans.abort = "tags" => ans.category # None /\ ans.tag_ids = None
       /\ ans.category # None => ans.category[1] \in CategoryIds
       /\ ans.tag_ids # None =>
             \A i \in 1..Len(ans.tag_ids[1]) :
                 \E t \in tags : /\ t.id = ans.tag_ids[1][i]
                                 /\ t.category_id = recategorised.category_id
       /\ call' = "cmd_edit"
       /\ args' = [activity_id |-> a.id, answers |-> ans,
                   update_activity |-> IF ans.abort = "none" THEN Some(update) ELSE None]
       /\ activities' = (activities \ {a}) \cup {written}
       /\ activity_tags' = IF ans.abort \in {"times", "tags"} THEN activity_tags
                           ELSE retagged
       /\ UNCHANGED <<categories, tags, seq>>
       /\ IF ans.abort = "none"
          THEN Returns(<<"Successfully updated activity">>)
          ELSE result' = [raised |-> "AbortInput", value |-> <<"Cancelled.">>]

(***************************************************************************)
(* Two sessions running get-or-create at once. Each is a transaction of    *)
(* its own connection: its SELECT sees what is committed when it runs, and *)
(* its INSERT and commit come later, with the other session's statements   *)
(* possibly in between. The sessions in flight are kept in args.           *)
(***************************************************************************)
Sessions ==
    {1, 2}

Idle ==
    [pc |-> "idle", scope |-> "none", category_id |-> 0, name |-> <<>>,
     existing |-> None, returned |-> None, raised |-> "none"]

InFlight ==
    IF call = "get_or_create" THEN args ELSE [p \in Sessions |-> Idle]

\* A store without the unique indexes: no insert is ever refused.
NoUniqueIndex(scope, category_id, name) ==
    FALSE

\* The unique indexes of the schema, on the lower-cased name of a category and
\* on the category and lower-cased name of a tag: an insert of a name that a
\* committed row has is refused.
UniqueIndexHit(scope, category_id, name) ==
    IF scope = "category" THEN CategoryNameTaken(name, 0)
    ELSE TagNameTaken(category_id, name, 0)

\* The first statement of create_category / create_tag in session p: the
\* name is stripped and looked up without case.
GetOrCreateSelect(p, scope, category_id, name) ==
    LET stripped == Strip(name)
        existing == IF scope = "category"
                    THEN {c.id : c \in {d \in categories : Lower(d.name) = Lower(stripped)}}
                    ELSE {t.id : t \in {u \in tags : /\ u.category_id = category_id
                                                     /\ Lower(u.name) = Lower(stripped)}}
    IN /\ InFlight[p].pc = "idle"
       /\ call' = "get_or_create"
       /\ \E e \in (IF existing = {} THEN {None} ELSE {Some(id) : id \in existing}) :
              args' = [InFlight EXCEPT ![p] =
                          [pc |-> "selected", scope |-> scope,
                           category_id |-> category_id, name |-> stripped,
                           existing |-> e, returned |-> None, raised |-> "none"]]
       /\ UNCHANGED db
       /\ Returns(None)

\* The rest of create_category / create_tag in session p: return the row
\* found, or INSERT and commit. An INSERT the unique index refuses raises; the
\* id it drew from the sequence is not given back.
GetOrCreateInsert(p) ==
    LET s == InFlight[p]
        id == IF s.scope = "category" THEN seq.categories + 1 ELSE seq.tags + 1
        seqAfter == IF s.scope = "category" THEN [seq EXCEPT !.categories = id]
                    ELSE [seq EXCEPT !.tags = id]
        work == IF s.scope = "category"
                THEN [Tables EXCEPT !.categories = @ \cup {[id |-> id, name |-> s.name]}]
                ELSE [Tables EXCEPT !.tags = @ \cup {[id |-> id,
                                                     category_id |-> s.category_id,
                                                     name |-> s.name]}]
        error == IF UniqueIndexHit(s.scope, s.category_id, s.name)
                 THEN "UniqueViolation" ELSE "none"
    IN /\ s.pc = "selected"
       /\ call' = "get_or_create"
       /\ IF s.existing # None
          THEN /\ UNCHANGED db
               /\ Returns(<<s.existing[1], FALSE>>)
               /\ args' = [InFlight EXCEPT ![p].pc = "idle",
                                           ![p].returned = Some(<<s.existing[1], FALSE>>)]
          ELSE /\ GetCursor(work, error, seqAfter, <<id, TRUE>>)
               /\ args' = [InFlight EXCEPT
                              ![p].pc = "idle",
                              ![p].raised = error,
                              ![p].returned = IF error = "none" THEN Some(<<id, TRUE>>)
                                              ELSE None]

(***************************************************************************)
(* Reports.                                                                *)
(***************************************************************************)
\* DATE(start_time): the day a timestamp falls on.
Date(t) ==
    t \div 86400

\* WHERE DATE(start_time) >= %s AND DATE(start_time) <= %s
InRange(a, start_date, end_date) ==
    Date(a.start_time) >= start_date /\ Date(a.start_time) <= end_date

\* (x seconds / 60)::INTEGER. The cast rounds to the nearest integer; a value
\* exactly half way goes up for numeric and to the even neighbour for double
\* precision (EXTRACT yields one or the other, by server version), so both
\* neighbours are possible there.
IntegerCast(seconds) ==
    LET q == seconds \div 60
        r == seconds % 60
    IN IF 2 * r < 60 THEN {q}
       ELSE IF 2 * r > 60 THEN {q + 1}
       ELSE {q, q + 1}

\* SUM(EXTRACT(EPOCH FROM (end_time - start_time)) / 60) over a group, in seconds:
\* the division by 60 is exact, so the sum of the quotients is the sum of the
\* seconds over 60.
GroupSeconds(group) ==
    SumOver(group, [a \in group |-> a.end_time - a.start_time])

\* The rows of one GROUP BY: for each key with activities, <<COUNT, total_minutes>>;
\* every function the query may return.
GroupRows(groups) ==
    LET keys == DOMAIN groups
        vals(k) == {<<Cardinality(groups[k]), m>> :
                       m \in IntegerCast(GroupSeconds(groups[k]))}
    IN {rows \in [keys -> UNION {vals(k) : k \in keys}] :
           \A k \in keys : rows[k] \in vals(k)}

\* sum(r[2] for r in rows), and the running total of report_daily.
TotalMinutes(rows) ==
    SumOver(DOMAIN rows, [k \in DOMAIN rows |-> rows[k][2]])

\* report_daily; the order of the rows (ORDER BY) and the text of the lines are left out.
ReportDaily(start_date, end_date) ==
    LET matching == {a \in activities : InRange(a, start_date, end_date)}
        days == {Date(a.start_time) : a \in matching}
        onDay(d) == {a \in matching : Date(a.start_time) = d}
    IN /\ call' = "report_daily" /\ args' = [start_date |-> start_date,
                   end_date |-> end_date]
       /\ UNCHANGED db
       /\ \E rows \in GroupRows([d \in days |-> onDay(d)]) :
              IF days = {}
              THEN Returns([lines |-> "No data between", rows |-> rows])
              ELSE Returns([lines |-> "Daily Summary", rows |-> rows,
                            total_minutes |-> TotalMinutes(rows)])

\* report_categories; the order of the rows and the percentages are left out.
ReportCategories(start_date, end_date) ==
    LET matching == {a \in activities : InRange(a, start_date, end_date)}
        inCategory(c) == {a \in matching : a.category_id = c}
        cats == {c \in CategoryIds : inCategory(c) # {}}
    IN /\ call' = "report_categories" /\ args' = [start_date |-> start_date,
                   end_date |-> end_date]
       /\ UNCHANGED db
       /\ \E rows \in GroupRows([c \in cats |-> inCategory(c)]) :
              IF cats = {}
              THEN Returns([lines |-> "No data between", rows |-> rows])
              ELSE Returns([lines |-> "Time by Category", rows |-> rows,
                            total_minutes |-> TotalMinutes(rows)])

\* report_tags; the order of the rows and the names are left out. A row per
\* tag with a matching activity among those it is associated with.
ReportTags(start_date, end_date) ==
    LET matching == {a \in activities : InRange(a, start_date, end_date)}
        withTag(t) == {a \in matching :
                          [activity_id |-> a.id, tag_id |-> t] \in activity_tags}
        used == {t \in TagIds : withTag(t) # {}}
    IN /\ call' = "report_tags" /\ args' = [start_date |-> start_date,
                   end_date |-> end_date]
       /\ UNCHANGED db
       /\ \E rows \in GroupRows([t \in used |-> withTag(t)]) :
              IF used = {}
              THEN Returns([lines |-> "No tagged activities between", rows |-> rows])
              ELSE Returns([lines |-> "Time by Tag", rows |-> rows])

(***************************************************************************)
(* Specifications. Each starts from a database the program can have built  *)
(* and offers some of the operations, with their arguments from small sets.*)
(***************************************************************************)
NoCall ==
    /\ call = "none" /\ args = <<>>
    /\ result = [raised |-> "none", value |-> None]

\* The database as setup_database leaves it.
Init ==
    /\ categories = {}
    /\ tags = {}
    /\ activities = {}
    /\ activity_tags = {}
    /\ seq = [categories |-> 0, tags |-> 0, activities |-> 0]
    /\ NoCall

\* ---- Spec: logging, editing and deleting activities of one category.
Hours ==
    {Hm(9, 0), Hm(10, 0), Hm(11, 0)}

NewCategory ==
    /\ seq.categories < MaxCategories
    /\ CreateCategory(<<"a">>)

Log ==
    /\ seq.activities < MaxActivities
    /\ \E start_time \in Hours, end_time \in Hours, category_id \in 1..MaxCategories :
          /\ start_time < end_time
          /\ LogActivity(start_time, end_time, category_id, <<>>, None)

Update ==
    \E activity_id \in 1..MaxActivities, start_time \in Opt(Hours), end_time \in Opt(Hours) :
        UpdateActivity(activity_id, start_time, end_time, None, None)

Delete ==
    \E activity_id \in 1..MaxActivities : DeleteActivity(activity_id)

Next ==
    \/ NewCategory
    \/ Log
    \/ Update
    \/ Delete

Spec ==
    Init /\ [][Next]_vars

\* ---- SpecBoundary: logging to the minute, from the empty database.
Clock ==
    {Hm(9, 0), Hm(10, 0), Hm(10, 1), Hm(11, 0)}

LogClock ==
    /\ seq.activities < MaxActivities
    /\ \E start_time \in Clock, end_time \in Clock, category_id \in 1..MaxCategories :
          /\ start_time < end_time
          /\ LogActivity(start_time, end_time, category_id, <<>>, None)

NextBoundary ==
    \/ NewCategory
    \/ LogClock

SpecBoundary ==
    Init /\ [][NextBoundary]_vars

\* ---- SpecQuery: check_overlap_range over databases that one category and a
\* chain of hour-long activities from 9:00 (each logged from the end of the one
\* before, as cmd_log chains them) and at most one further activity make up.
ChainActivity(i) ==
    [id |-> i, start_time |-> Hm(8 + i, 0), end_time |-> Hm(9 + i, 0),
     category_id |-> 1, notes |-> None]

QueryTimes ==
    {Hm(9 + k, 0) : k \in 0..MaxChain} \cup Clock

InitQuery ==
    /\ categories = {[id |-> 1, name |-> <<"a">>]}
    /\ tags = {}
    /\ activity_tags = {}
    /\ NoCall
    /\ \E n \in 0..MaxChain :
          \/ /\ activities = {ChainActivity(i) : i \in 1..n}
             /\ seq = [categories |-> 1, tags |-> 0, activities |-> n]
          \/ \E start_time \in Clock, end_time \in Clock :
                /\ start_time < end_time
                /\ activities = {ChainActivity(i) : i \in 1..n}
                      \cup {[id |-> n + 1, start_time |-> start_time,
                             end_time |-> end_time, category_id |-> 1, notes |-> None]}
                /\ seq = [categories |-> 1, tags |-> 0, activities |-> n + 1]

\* One call per database: the function only reads, so a second call from the
\* same database repeats the first.
Query ==
    /\ call = "none"
    /\ \E start_time \in QueryTimes, end_time \in QueryTimes,
          exclude_id \in Opt(1..(MaxChain + 1)) :
          /\ start_time < end_time
          /\ CheckOverlapRangeCall(start_time, end_time, exclude_id)

NextQuery ==
    Query

SpecQuery ==
    InitQuery /\ [][NextQuery]_vars

\* ---- SpecRegistry: categories and tags, by name.
RegistryCategoryNames ==
    {<<"a">>, <<" ", "A", " ">>, <<"b">>}

RegistryTagNames ==
    {<<"x">>, <<"X", " ">>}

\* A call that would hand out an id beyond the bound is left out.
GetOrCreateCategory ==
    \E name \in RegistryCategoryNames :
        /\ seq.categories < MaxCategories \/ CategoryNameTaken(Strip(name), 0)
        /\ CreateCategory(name)

Rename ==
    \E category_id \in 1..MaxCategories, name \in RegistryCategoryNames :
        RenameCategory(category_id, name)

RemoveCategory ==
    \E category_id \in 1..MaxCategories : DeleteCategory(category_id)

GetOrCreateTag ==
    \E category_id \in 1..MaxCategories, name \in RegistryTagNames :
        /\ seq.tags < MaxTags \/ TagNameTaken(category_id, Strip(name), 0)
        /\ CreateTag(category_id, name)

RenameATag ==
    \E tag_id \in 1..MaxTags, name \in RegistryTagNames : RenameTag(tag_id, name)

RemoveTag ==
    \E tag_id \in 1..MaxTags : DeleteTag(tag_id)

NextRegistry ==
    \/ GetOrCreateCategory
    \/ Rename
    \/ RemoveCategory
    \/ GetOrCreateTag
    \/ RenameATag
    \/ RemoveTag

SpecRegistry ==
    Init /\ [][NextRegistry]_vars

\* ---- SpecCascade: deleting categories that have activities.
NewCategoryAB ==
    /\ seq.categories < MaxCategories
    /\ \E name \in {<<"a">>, <<"b">>} : CreateCategory(name)

LogHour ==
    /\ seq.activities < MaxCascadeActivities
    /\ \E h \in {9, 10}, category_id \in 1..MaxCategories :
          LogActivity(Hm(h, 0), Hm(h + 1, 0), category_id, <<>>, None)

NextCascade ==
    \/ NewCategoryAB
    \/ LogHour
    \/ RemoveCategory

SpecCascade ==
    Init /\ [][NextCascade]_vars

\* ---- SpecReport: the reports over activities timed to the second, on two days.
ReportTimes ==
    {d * 86400 + s : d \in 0..1, s \in {0, 40, 80}}

LogSeconds ==
    /\ seq.activities < MaxReportActivities
    /\ \E start_time \in ReportTimes, end_time \in ReportTimes, category_id \in CategoryIds :
          /\ start_time < end_time
          /\ LogActivity(start_time, end_time, category_id, <<>>, None)

Daily ==
    \E start_date \in 0..1, end_date \in 0..1 : ReportDaily(start_date, end_date)

ByCategory ==
    \E start_date \in 0..1, end_date \in 0..1 : ReportCategories(start_date, end_date)

NextReport ==
    \/ NewCategoryAB
    \/ LogSeconds
    \/ Daily
    \/ ByCategory

SpecReport ==
    Init /\ [][NextReport]_vars

\* ---- SpecTags: activities with tags, in a database of one category and two
\* tags; tag 3 and category 2 do not exist.
TagLists ==
    {<<>>} \cup {<<t>> : t \in 1..3} \cup {<<t, u>> : t \in 1..3, u \in 1..3}

InitTags ==
    /\ categories = {[id |-> 1, name |-> <<"a">>]}
    /\ tags = {[id |-> 1, category_id |-> 1, name |-> <<"x">>],
               [id |-> 2, category_id |-> 1, name |-> <<"y">>]}
    /\ activities = {}
    /\ activity_tags = {}
    /\ seq = [categories |-> 1, tags |-> 2, activities |-> 0]
    /\ NoCall

LogTagged ==
    /\ seq.activities < MaxTaggedActivities
    /\ \E category_id \in 1..2, tag_ids \in TagLists :
          LogActivity(Hm(9 + seq.activities, 0), Hm(10 + seq.activities, 0),
                      category_id, tag_ids, None)

SetTags ==
    \E activity_id \in 1..MaxTaggedActivities, tag_ids \in TagLists :
        UpdateActivityTags(activity_id, tag_ids)

DeleteTagged ==
    \E activity_id \in 1..MaxTaggedActivities : DeleteActivity(activity_id)

RemoveATag ==
    \E tag_id \in 1..3 : DeleteTag(tag_id)

NextTags ==
    \/ LogTagged
    \/ SetTags
    \/ DeleteTagged
    \/ RemoveATag

SpecTags ==
    InitTags /\ [][NextTags]_vars

\* ---- SpecEdit: update_activity with every combination of provided and
\* omitted fields, on a stored activity that has notes and a tag.
EditNotes ==
    {<<>>, <<" ">>, <<"n">>}

InitEdit ==
    /\ categories = {[id |-> 1, name |-> <<"a">>], [id |-> 2, name |-> <<"b">>]}
    /\ tags = {[id |-> 1, category_id |-> 1, name |-> <<"x">>]}
    /\ activities = {[id |-> 1, start_time |-> Hm(9, 0), end_time |-> Hm(10, 0),
                      category_id |-> 1, notes |-> Some(<<"m">>)]}
    /\ activity_tags = {[activity_id |-> 1, tag_id |-> 1]}
    /\ seq = [categories |-> 2, tags |-> 1, activities |-> 1]
    /\ NoCall

EditFields ==
    \E activity_id \in 1..2, start_time \in Opt({Hm(9, 0), Hm(9, 30)}),
       end_time \in Opt({Hm(10, 0), Hm(11, 0)}),
       category_id \in Opt(1..3), notes \in Opt(EditNotes) :
        UpdateActivity(activity_id, start_time, end_time, category_id, notes)

EditTags ==
    \E tag_ids \in {<<>>, <<1>>} : UpdateActivityTags(1, tag_ids)

NextEdit ==
    \/ EditFields
    \/ EditTags

SpecEdit ==
    InitEdit /\ [][NextEdit]_vars

\* ---- SpecNotFound: renames, deletes and reads by id, on a store whose rows
\* are deleted one after another, so that every id comes to name no row.
Get ==
    \E activity_id \in 1..MaxActivities : GetActivity(activity_id)

NextNotFound ==
    \/ Rename
    \/ RemoveCategory
    \/ RenameATag
    \/ RemoveTag
    \/ Delete
    \/ Get

SpecNotFound ==
    InitEdit /\ [][NextNotFound]_vars

\* ---- SpecManage: cmd_manage option 3 (delete category), between commands
\* that create categories and log activities.
YesNoAnswers ==
    {<<>>, <<" ">>, <<"y">>, <<"Y">>, <<" ", "y", " ">>, <<"y", "e", "s">>,
     <<"Y", "E", "S">>, <<"n">>, <<"y", "e">>, <<"x">>}

AtCommandPrompt ==
    call # "prompt_yes_no"

ManageNewCategory ==
    AtCommandPrompt /\ NewCategoryAB

ManageLog ==
    AtCommandPrompt /\ LogHour

\* Option 3 up to its prompt: the category is picked from get_all_categories().
ManageDeleteAsk ==
    /\ AtCommandPrompt
    /\ \E category_id \in CategoryIds, val \in Opt(YesNoAnswers) :
          AskYesNo("Are you sure?", FALSE, val, category_id)

ManageDeleteConfirmed ==
    /\ Answered("Are you sure?", TRUE)
    /\ DeleteCategory(args.target)

ManageDeleteCancelled ==
    /\ AtPrompt("Are you sure?")
    /\ ~Answered("Are you sure?", TRUE)
    /\ Cancelled("cmd_manage")

NextManage ==
    \/ ManageNewCategory
    \/ ManageLog
    \/ ManageDeleteAsk
    \/ ManageDeleteConfirmed
    \/ ManageDeleteCancelled

SpecManage ==
    Init /\ [][NextManage]_vars

\* ---- SpecCli: cmd_log, with chained entries, and cmd_edit, with a change of
\* date, on a store with one category.
CliDays ==
    {0, 1}

CliTimes ==
    {<<9, 0>>, <<10, 0>>, <<11, 0>>}

TypedEnds ==
    {<<t>> : t \in CliTimes} \cup {<<t, u>> : t \in CliTimes, u \in CliTimes}

\* What cmd_edit's prompts are answered with; None is an empty answer.
EditStarts ==
    Opt({<<10, 0>>})

EditEnds ==
    Opt({<<9, 0>>, <<11, 0>>})

TypedEditEnds ==
    {<<t>> : t \in EditEnds} \cup {<<t, u>> : t \in EditEnds, u \in EditEnds}

\* cmd_log up to its first log_activity.
CmdLog ==
    /\ seq.activities < MaxCliActivities
    /\ \E activity_date \in CliDays, start \in CliTimes, typed \in TypedEnds,
          category_id \in CategoryIds :
          CmdLogEntry(activity_date, ParseTimeString(start, activity_date), typed,
                      category_id)

\* "Log next activity starting at ...?" answered yes: the next entry starts
\* where the last one ended, on the same date.
CmdLogChained ==
    /\ seq.activities < MaxCliActivities
    /\ call = "log_activity"
    /\ result.raised = "none"
    /\ \E answer \in {<<"y">>, <<"Y", "E", "S">>}, typed \in TypedEnds,
          category_id \in CategoryIds :
          /\ PromptYesNo(answer, FALSE)
          /\ CmdLogEntry(Date(args.start_time), args.end_time, typed, category_id)

CmdEditTimes ==
    \E a \in activities, date_val \in Opt(CliDays), start_val \in EditStarts,
       end_vals \in TypedEditEnds :
        CmdEdit(a, date_val, start_val, end_vals)

NextCli ==
    \/ CmdLog
    \/ CmdLogChained
    \/ CmdEditTimes

SpecCli ==
    InitTags /\ [][NextCli]_vars

\* ---- SpecDuration: log_activity on intervals with and without seconds
\* beyond the whole minutes.
DurationStarts ==
    {0, 40}

DurationEnds ==
    {40, 80, Hm(0, 30) + 59, Hm(1, 0)}

LogDuration ==
    /\ seq.activities < MaxDurationActivities
    /\ \E start_time \in DurationStarts, end_time \in DurationEnds, category_id \in 1..2 :
          /\ start_time < end_time
          /\ LogActivity(start_time, end_time, category_id, <<>>, None)

NextDuration ==
    \/ LogDuration
    \/ DeleteTagged

SpecDuration ==
    InitTags /\ [][NextDuration]_vars

\* ---- SpecEditCmd: the edit command on a stored activity with notes and a
\* tag, one group of prompts answered at a time, the others left empty.
EnterOnly ==
    [date_val |-> None, start_val |-> None, end_vals |-> <<None>>,
     category |-> None, tag_ids |-> None, notes_val |-> <<>>, abort |-> "none"]

NotesAnswers ==
    {<<>>, <<" ">>, <<"n">>, <<"x">>}

EndAnswers ==
    {<<None>>, <<Some(<<11, 0>>)>>, <<Some(<<9, 0>>), None>>}

TagAnswers ==
    Opt({<<>>, <<1>>})

AbortPoints ==
    {"none", "times", "tags", "notes"}

CmdEditNotes ==
    \E a \in activities, notes_val \in NotesAnswers :
        CmdEditCommand(a, [EnterOnly EXCEPT !.notes_val = notes_val])

CmdEditDate ==
    \E a \in activities, date_val \in Opt(CliDays), start_val \in EditStarts,
       end_vals \in EndAnswers, abort \in {"none", "times"} :
        CmdEditCommand(a, [EnterOnly EXCEPT !.date_val = date_val,
                               !.start_val = start_val, !.end_vals = end_vals,
                               !.abort = abort])

CmdEditCategory ==
    \E a \in activities, category \in Opt(1..2), tag_ids \in TagAnswers,
       end_vals \in {<<None>>, <<Some(<<11, 0>>)>>}, abort \in AbortPoints :
        CmdEditCommand(a, [EnterOnly EXCEPT !.category = category,
                               !.tag_ids = tag_ids, !.end_vals = end_vals,
                               !.abort = abort])

NextEditCmd ==
    \/ CmdEditNotes
    \/ CmdEditDate
    \/ CmdEditCategory

SpecEditCmd ==
    InitEdit /\ [][NextEditCmd]_vars

\* ---- SpecRename: renames on a store with two categories and two tags in one
\* of them, so that a rename can take a name another row has.
InitRename ==
    /\ categories = {[id |-> 1, name |-> <<"a">>], [id |-> 2, name |-> <<"b">>]}
    /\ tags = {[id |-> 1, category_id |-> 1, name |-> <<"x">>],
               [id |-> 2, category_id |-> 1, name |-> <<"y">>],
               [id |-> 3, category_id |-> 2, name |-> <<"x">>]}
    /\ activities = {}
    /\ activity_tags = {}
    /\ seq = [categories |-> 2, tags |-> 3, activities |-> 0]
    /\ NoCall

RenameTo ==
    \E category_id \in 1..2, name \in RegistryCategoryNames \cup {<<"c">>} :
        RenameCategory(category_id, name)

RenameTagTo ==
    \E tag_id \in 1..3, name \in RegistryTagNames \cup {<<"y">>} :
        RenameTag(tag_id, name)

NextRename ==
    \/ RenameTo
    \/ RenameTagTo

SpecRename ==
    InitRename /\ [][NextRename]_vars

\* ---- SpecTagReport: the three reports over tagged activities that last 40
\* or 80 seconds.
LogTaggedSeconds ==
    /\ seq.activities < MaxTagReportActivities
    /\ \E start_time \in {0, 40}, end_time \in {40, 80},
          tag_ids \in {<<>>, <<1>>, <<1, 2>>} :
          /\ start_time < end_time
          /\ LogActivity(start_time, end_time, 1, tag_ids, None)

ByTag ==
    \E start_date \in 0..1, end_date \in 0..1 : ReportTags(start_date, end_date)

NextTagReport ==
    \/ LogTaggedSeconds
    \/ Daily
    \/ ByCategory
    \/ ByTag

SpecTagReport ==
    InitTags /\ [][NextTagReport]_vars

\* ---- SpecRace: two sessions calling get_or_create_category and
\* get_or_create_tag with their statements interleaved.
RaceSelectCategory ==
    /\ seq.categories < MaxRaceRows
    /\ \E p \in Sessions, name \in RegistryCategoryNames :
          GetOrCreateSelect(p, "category", 0, name)

RaceSelectTag ==
    /\ seq.tags < MaxRaceRows
    /\ \E p \in Sessions, category_id \in CategoryIds, name \in RegistryTagNames :
          GetOrCreateSelect(p, "tag", category_id, name)

RaceInsert ==
    \E p \in Sessions : GetOrCreateInsert(p)

NextRace ==
    \/ RaceSelectCategory
    \/ RaceSelectTag
    \/ RaceInsert

SpecRace ==
    Init /\ [][NextRace]_vars

\* ---- SpecMain: the while loop of main, one step per pass: a command is read
\* and run, and what it raises meets main's except clauses.
\* The commands of COMMAND_MAP that call the store.
StoreCommands ==
    {"cmd_log", "cmd_edit", "cmd_delete", "cmd_view", "cmd_report", "cmd_manage"}

\* The two except clauses of the loop. AbortInput is handled and the loop goes
\* on; EOFError and KeyboardInterrupt are handled by break.
MainCatches ==
    {"AbortInput", "EOFError", "KeyboardInterrupt"}

MainBreaks ==
    {"EOFError", "KeyboardInterrupt"}

\* The loop is at its "> " prompt: the pass before it ended without an
\* exception or with one whose handler does not break. An exception outside
\* MainCatches leaves main, and there is no pass after it.
MainAtPrompt ==
    result.raised \in ({"none"} \cup (MainCatches \ MainBreaks))

\* get_cursor when get_connection returns None: it raises before the block
\* has run a statement.
FailedToConnect(command) ==
    /\ call' = command /\ args' = <<>>
    /\ Rollback("Exception", seq)

\* "log", answered up to the first log_activity.
MainLog ==
    MainAtPrompt /\ CmdLog

\* An empty line: process_command returns [] and nothing is rendered.
MainEmptyLine ==
    /\ MainAtPrompt
    /\ call' = "process_command" /\ args' = <<>>
    /\ UNCHANGED db
    /\ Returns(<<>>)

\* ctrl-z at a prompt of a command, before the command has called the store.
MainCancel ==
    /\ MainAtPrompt
    /\ \E command \in StoreCommands :
          /\ call' = command /\ args' = <<>>
          /\ UNCHANGED db
          /\ result' = [raised |-> "AbortInput", value |-> <<"Cancelled.">>]

\* The database cannot be reached when a command opens its unit of work.
MainStorageFailure ==
    /\ MainAtPrompt
    /\ \E command \in StoreCommands : FailedToConnect(command)

\* ctrl-d or ctrl-c at the "> " prompt.
MainGoodbye ==
    /\ MainAtPrompt
    /\ \E raised \in MainBreaks :
          /\ call' = "main" /\ args' = <<>>
          /\ UNCHANGED db
          /\ result' = [raised |-> raised, value |-> <<"Goodbye!">>]

NextMain ==
    \/ MainLog
    \/ MainEmptyLine
    \/ MainCancel
    \/ MainStorageFailure
    \/ MainGoodbye

SpecMain ==
    InitTags /\ [][NextMain]_vars

(***************************************************************************)
(* Properties.                                                             *)
(***************************************************************************)
\* A.start < B.end AND B.start < A.end
Overlapping(a, b) ==
    a.start_time < b.end_time /\ b.start_time < a.end_time

\* The activities other than except_id whose stored interval intersects [s, e).
Intersecting(s, e, except_id) ==
    {a \in activities : a.start_time < e /\ a.end_time > s /\ Some(a.id) # except_id}

\* The rows <<id, start, end>> of a sequence of rows, as a set.
RowSet(rows) ==
    {rows[i] : i \in 1..Len(rows)}

RowOf(a) ==
    <<a.id, a.start_time, a.end_time>>

\* C1: no two stored activities with distinct ids overlap, after any sequence
\* of committed operations.
C1_NoOverlap ==
    \A a \in activities, b \in activities : a.id # b.id => ~Overlapping(a, b)

\* C2: a create over an interval that a stored activity overlaps fails with
\* OverlapConflict (a ValueError) and inserts no activity row and no association.
C2_CreateRejectsOverlap ==
    [][(/\ call' = "log_activity"
        /\ args'.category_id \in CategoryIds
        /\ Intersecting(args'.start_time, args'.end_time, None) # {})
       => (/\ result'.raised = "ValueError"
           /\ activities' = activities
           /\ activity_tags' = activity_tags)]_vars

\* C3: from the empty store, [9:00, 10:00) then [10:00, 11:00) both succeed;
\* [9:00, 10:01) then [10:00, 11:00) makes the second create fail with an
\* OverlapConflict that lists the first activity.
C3_TouchingBoundary ==
    [][\A a \in activities :
          (/\ activities = {a}
           /\ a.start_time = Hm(9, 0)
           /\ call' = "log_activity"
           /\ args'.category_id \in CategoryIds
           /\ args'.start_time = Hm(10, 0)
           /\ args'.end_time = Hm(11, 0))
          => /\ a.end_time = Hm(10, 0) =>
                   /\ result'.raised = "none"
                   /\ Cardinality(activities') = 2
             /\ a.end_time = Hm(10, 1) =>
                   /\ result'.raised = "ValueError"
                   /\ RowOf(a) \in RowSet(result'.value)
                   /\ activities' = activities]_vars

\* C4: with no exclude_id, check_overlap_range returns no row exactly when a new
\* activity over [s, e) would overlap no stored activity, however many overlap.
C4_EmptyIffInsertable ==
    (call = "check_overlap_range" /\ args.exclude_id = None)
    => LET new == [id |-> seq.activities + 1, start_time |-> args.start_time,
                   end_time |-> args.end_time]
       IN (result.value = <<>>) <=> (\A b \in activities : ~Overlapping(new, b))

C4_Witness ==
    /\ call = "check_overlap_range"
    /\ args.exclude_id = None
    /\ Cardinality(Intersecting(args.start_time, args.end_time, None)) > 5
    /\ result.value # <<>>

\* C5, as claimed: check_overlap_range returns every stored activity that
\* intersects the interval, except exclude_id, in ascending order of start time,
\* also when more than five do.
C5_ReturnsAllAscending ==
    call = "check_overlap_range"
    => LET rows == result.value
       IN /\ RowSet(rows) = {RowOf(a) : a \in Intersecting(args.start_time,
                                                        args.end_time, args.exclude_id)}
          /\ \A i \in 1..Len(rows), j \in 1..Len(rows) : i < j => rows[i][2] <= rows[j][2]

\* C5, amended: check_overlap_range returns, in ascending order of start time,
\* the stored activities that intersect the interval, except exclude_id: all of
\* them when at most five do, and otherwise five of them, none starting later
\* than one that is left out.
C5_ReturnsFirstFiveAscending ==
    call = "check_overlap_range"
    => LET rows == result.value
           all == {RowOf(a) : a \in Intersecting(args.start_time, args.end_time,
                                                 args.exclude_id)}
       IN /\ RowSet(rows) \subseteq all
          /\ Cardinality(RowSet(rows)) = Len(rows)
          /\ Len(rows) = IF Cardinality(all) <= 5 THEN Cardinality(all) ELSE 5
          /\ \A i \in 1..Len(rows), j \in 1..Len(rows) : i < j => rows[i][2] <= rows[j][2]
          /\ \A r \in RowSet(rows), q \in all \ RowSet(rows) : r[2] <= q[2]

C5_Witness ==
    /\ call = "check_overlap_range"
    /\ args.exclude_id # None
    /\ args.exclude_id[1] \in ActivityIds
    /\ Cardinality(Intersecting(args.start_time, args.end_time, args.exclude_id)) > 5
    /\ Len(result.value) = 5
    /\ \E i \in 1..4 : result.value[i][1] > result.value[i + 1][1]

\* C6: an update that gives a time bound and whose effective interval overlaps
\* another activity aborts with OverlapConflict and leaves the activity as it was.
C6_UpdateRejectsOverlap ==
    [][\A a \in activities :
          (/\ call' = "update_activity"
           /\ args'.activity_id = a.id
           /\ (args'.start_time # None \/ args'.end_time # None)
           /\ LET new_start == IF args'.start_time # None THEN args'.start_time[1]
                               ELSE a.start_time
                  new_end == IF args'.end_time # None THEN args'.end_time[1]
                             ELSE a.end_time
              IN Intersecting(new_start, new_end, Some(a.id)) # {})
          => /\ result'.raised = "ValueError"
             /\ activities' = activities]_vars

\* C7: an update that passes an activity its own current start and end never
\* conflicts with the activity itself, and succeeds whenever the store had no
\* overlap before.
C7_NoSelfConflict ==
    [][\A a \in activities :
          (/\ call' = "update_activity"
           /\ args'.activity_id = a.id
           /\ args'.start_time = Some(a.start_time)
           /\ args'.end_time = Some(a.end_time))
          => /\ result'.raised = "ValueError" => RowOf(a) \notin RowSet(result'.value)
             /\ C1_NoOverlap =>
                   /\ result'.raised = "none"
                   /\ result'.value = TRUE
                   /\ activities' = activities]_vars

C7_Witness ==
    /\ call = "update_activity"
    /\ args.start_time # None
    /\ args.end_time # None
    /\ result.raised = "none"
    /\ result.value = TRUE
    /\ C1_NoOverlap
    /\ Cardinality(activities) >= 2
    /\ \E a \in activities :
          /\ a.id = args.activity_id
          /\ args.start_time = Some(a.start_time)
          /\ args.end_time = Some(a.end_time)
          /\ a.start_time < a.end_time
          /\ \E b \in activities : b.start_time = a.end_time

\* A name as get-or-create compares it: stripped, in lower case.
Norm(name) ==
    Lower(Strip(name))

CategoriesNamed(rows, name) ==
    {c \in rows : Norm(c.name) = Norm(name)}

TagsNamed(rows, category_id, name) ==
    {t \in rows : t.category_id = category_id /\ Norm(t.name) = Norm(name)}

\* C8: get-or-create is idempotent, for categories and for tags within one
\* category. A call for a name no row has (compared stripped and without case)
\* creates the row and returns its id with was_created = true; a call that
\* follows it with a name differing only in case and surrounding whitespace
\* returns the same id with was_created = false; after either, exactly one row
\* has the name.
C8_GetOrCreateIdempotent ==
    [][/\ (/\ call' = "create_category"
           /\ CategoriesNamed(categories, args'.name) = {})
          => /\ result'.raised = "none"
             /\ result'.value[2] = TRUE
             /\ \E c \in categories' :
                    /\ CategoriesNamed(categories', args'.name) = {c}
                    /\ result'.value[1] = c.id
       /\ (/\ call' = "create_category"
           /\ call = "create_category"
           /\ result.value[2] = TRUE
           /\ Norm(args.name) = Norm(args'.name))
          => /\ result'.raised = "none"
             /\ result'.value = <<result.value[1], FALSE>>
             /\ \E c \in categories' :
                    /\ CategoriesNamed(categories', args'.name) = {c}
                    /\ result'.value[1] = c.id
       /\ (/\ call' = "create_tag"
           /\ args'.category_id \in CategoryIds
           /\ TagsNamed(tags, args'.category_id, args'.name) = {})
          => /\ result'.raised = "none"
             /\ result'.value[2] = TRUE
             /\ \E t \in tags' :
                    /\ TagsNamed(tags', args'.category_id, args'.name) = {t}
                    /\ result'.value[1] = t.id
       /\ (/\ call' = "create_tag"
           /\ call = "create_tag"
           /\ result.raised = "none"
           /\ result.value[2] = TRUE
           /\ args.category_id = args'.category_id
           /\ Norm(args.name) = Norm(args'.name))
          => /\ result'.raised = "none"
             /\ result'.value = <<result.value[1], FALSE>>
             /\ \E t \in tags' :
                    /\ TagsNamed(tags', args'.category_id, args'.name) = {t}
                    /\ result'.value[1] = t.id]_vars

C8_Witness ==
    /\ call = "create_category"
    /\ result.value[2] = FALSE
    /\ Cardinality(categories) = 2
    /\ \E c \in categories :
          /\ c.id = result.value[1]
          /\ CategoriesNamed(categories, args.name) = {c}
          /\ c.name # args.name
          /\ c.name # Strip(args.name)

\* C9: delete_category on an existing category removes the category and exactly
\* the activities of that category, and reports how many activities the
\* category had just before.
C9_DeleteCategoryCascades ==
    [][(call' = "delete_category" /\ args'.category_id \in CategoryIds)
       => LET mine == {a \in activities : a.category_id = args'.category_id}
          IN /\ result'.raised = "none"
             /\ args'.category_id \notin {c.id : c \in categories'}
             /\ \A a \in activities' : a.category_id # args'.category_id
             /\ activities' = activities \ mine
             /\ result'.value[3] = Cardinality(mine)]_vars

C9_Witness ==
    /\ call = "delete_category"
    /\ Len(result.value) = 3
    /\ result.value[3] = 2
    /\ activities # {}
    /\ args.category_id \notin CategoryIds

\* C10: for every store and date range, the total of the by-day report and the
\* total of the by-category report both equal the sum, over the activities in
\* the range, of (end - start) truncated to whole minutes per activity.
C10_TotalsConsistent ==
    call \in {"report_daily", "report_categories"}
    => LET matching == {a \in activities : InRange(a, args.start_date, args.end_date)}
       IN TotalMinutes(result.value.rows)
              = SumOver(matching, [a \in matching |->
                                      TruncDiv(a.end_time - a.start_time, 60)])

\* The associations a call asks for: one per distinct id of tag_ids.
AskedTagRows(activity_id, tag_ids) ==
    {[activity_id |-> activity_id, tag_id |-> tag_ids[i]] : i \in 1..Len(tag_ids)}

\* C11: a unit of work that raises persists none of its writes and the error
\* reaches the caller; one that completes commits all of its writes together
\* (a create: the activity row and every association; a set_tags: the deletes
\* and every insert). No state has part of a unit's writes.
C11_UnitOfWork ==
    [][/\ result'.raised # "none" =>
             /\ categories' = categories
             /\ tags' = tags
             /\ activities' = activities
             /\ activity_tags' = activity_tags
       /\ (call' = "log_activity" /\ result'.raised = "none") =>
             \E a \in activities' :
                 /\ a.id = result'.value[1]
                 /\ a.id \notin ActivityIds
                 /\ activities' = activities \cup {a}
                 /\ activity_tags' = activity_tags \cup AskedTagRows(a.id, args'.tag_ids)
       /\ (call' = "log_activity" /\ result'.raised = "none") =>
             (categories' = categories /\ tags' = tags)
       /\ (call' = "update_activity_tags" /\ result'.raised = "none") =>
             /\ activity_tags' =
                    {at \in activity_tags : at.activity_id # args'.activity_id}
                        \cup AskedTagRows(args'.activity_id, args'.tag_ids)
             /\ activities' = activities]_vars

\* A create whose second association insert raised after the activity row and
\* the first association had been written: nothing of it is in the store.
C11_Witness ==
    /\ call = "log_activity"
    /\ result.raised = "ForeignKeyViolation"
    /\ args.category_id \in CategoryIds
    /\ Len(args.tag_ids) = 2
    /\ args.tag_ids[1] \in TagIds
    /\ args.tag_ids[2] \notin TagIds
    /\ seq.activities \notin ActivityIds
    /\ \A at \in activity_tags : at.activity_id # seq.activities
    /\ activities # {}

\* C14: set_tags is a full replace. After it commits the tags of the activity
\* are exactly the ids of tag_ids, whatever they were before, and the
\* associations of other activities are as before; ids given twice make one
\* association and no error.
C14_SetTagsReplaces ==
    [][call' = "update_activity_tags" =>
          /\ result'.raised = "none" =>
                /\ {at.tag_id : at \in {x \in activity_tags' :
                                            x.activity_id = args'.activity_id}}
                       = {args'.tag_ids[i] : i \in 1..Len(args'.tag_ids)}
                /\ {at \in activity_tags' : at.activity_id # args'.activity_id}
                       = {at \in activity_tags : at.activity_id # args'.activity_id}
          /\ (/\ args'.activity_id \in ActivityIds
              /\ \A i \in 1..Len(args'.tag_ids) : args'.tag_ids[i] \in TagIds)
                => result'.raised = "none"]_vars

C14_Witness ==
    /\ call = "update_activity_tags"
    /\ result.raised = "none"
    /\ Len(args.tag_ids) = 2
    /\ args.tag_ids[1] = args.tag_ids[2]
    /\ Cardinality({at \in activity_tags : at.activity_id = args.activity_id}) = 1
    /\ Cardinality({at \in activity_tags : at.activity_id # args.activity_id}) = 2

\* C15: delete_activity on an existing activity removes that row and its
\* associations, leaves every other activity, association, tag and category as
\* it was, and returns the interval of the deleted activity (as the text of its
\* start and end times); on an id that does not exist it returns None and
\* changes nothing.
C15_DeleteActivity ==
    [][call' = "delete_activity" =>
          /\ result'.raised = "none"
          /\ categories' = categories
          /\ tags' = tags
          /\ \A a \in activities :
                a.id = args'.activity_id =>
                   /\ activities' = activities \ {a}
                   /\ activity_tags' = {at \in activity_tags : at.activity_id # a.id}
                   /\ result'.value = Some(<<FormatTime(a.start_time),
                                            FormatTime(a.end_time)>>)
          /\ args'.activity_id \notin ActivityIds =>
                /\ result'.value = None
                /\ activities' = activities
                /\ activity_tags' = activity_tags]_vars

C15_Witness ==
    /\ call = "delete_activity"
    /\ result.value = Some(<<<<9, 0, "am">>, <<10, 0, "am">>>>)
    /\ args.activity_id \notin ActivityIds
    /\ activities # {}
    /\ activity_tags # {}
    /\ seq.activities = 2

\* C16: delete_tag removes the tag row and every association that references
\* it, and leaves every activity row as it was.
C16_DeleteTag ==
    [][(call' = "delete_tag" /\ args'.tag_id \in TagIds) =>
          /\ result'.raised = "none"
          /\ tags' = {t \in tags : t.id # args'.tag_id}
          /\ activity_tags' = {at \in activity_tags : at.tag_id # args'.tag_id}
          /\ activities' = activities
          /\ categories' = categories]_vars

C16_Witness ==
    /\ call = "delete_tag"
    /\ result.value[1] = "Deleted tag"
    /\ args.tag_id \notin TagIds
    /\ Cardinality(activities) = 2
    /\ activity_tags # {}
    /\ \A a \in activities : \E at \in activity_tags : at.activity_id = a.id

\* C12: a successful update leaves every field that was not provided as it
\* was stored, and leaves the activity's tag associations as they were.
C12_OmittedUnchanged ==
    [][(call' = "update_activity" /\ result'.raised = "none")
       => /\ activity_tags' = activity_tags
          /\ \A a \in activities :
                a.id = args'.activity_id
                => \E b \in activities' :
                      /\ b.id = a.id
                      /\ args'.start_time = None => b.start_time = a.start_time
                      /\ args'.end_time = None => b.end_time = a.end_time
                      /\ args'.category_id = None => b.category_id = a.category_id
                      /\ args'.notes = None => b.notes = a.notes]_vars

C12_Witness ==
    /\ call = "update_activity"
    /\ result.raised = "none"
    /\ result.value = TRUE
    /\ args.start_time # None
    /\ args.end_time = None
    /\ args.category_id = None
    /\ args.notes = None
    /\ activity_tags # {}
    /\ \E a \in activities :
          /\ a.id = args.activity_id
          /\ a.start_time = args.start_time[1]
          /\ a.end_time = Hm(11, 0)
          /\ a.category_id = 2
          /\ a.notes = Some(<<"n">>)

\* C13: update returns false without an error and without a change when no
\* field is provided or the id is not stored; it returns true only when a
\* stored row was updated with at least one provided field.
C13_UpdateResult ==
    [][call' = "update_activity"
       => LET nothing == /\ args'.start_time = None /\ args'.end_time = None
                         /\ args'.category_id = None /\ args'.notes = None
              missing == args'.activity_id \notin ActivityIds
          IN /\ (nothing \/ missing)
                => /\ result' = [raised |-> "none", value |-> FALSE]
                   /\ UNCHANGED db
             /\ (result'.raised = "none" /\ result'.value = TRUE)
                => /\ ~nothing
                   /\ ~missing
                   /\ args'.activity_id \in {a.id : a \in activities'}]_vars

C13_Witness ==
    /\ call = "update_activity"
    /\ args.activity_id \notin ActivityIds
    /\ args.category_id = Some(3)
    /\ args.start_time # None
    /\ result = [raised |-> "none", value |-> FALSE]

\* The id a rename, delete or get was called with names no row.
CalledWithMissingId ==
    CASE call' \in {"rename_category", "delete_category"}
            -> args'.category_id \notin CategoryIds
      [] call' \in {"rename_tag", "delete_tag"} -> args'.tag_id \notin TagIds
      [] call' \in {"delete_activity", "get_activity"}
            -> args'.activity_id \notin ActivityIds
      [] OTHER -> FALSE

\* The value returned is one the operation returns when it found its row.
SuccessValue ==
    CASE call' = "rename_category"
            -> result'.value = <<"Category renamed to", args'.new_name>>
      [] call' = "rename_tag" -> result'.value = <<"Tag renamed to", args'.new_name>>
      [] call' = "delete_category" -> result'.value[1] = "Deleted category"
      [] call' = "delete_tag" -> result'.value[1] = "Deleted tag"
      [] call' \in {"delete_activity", "get_activity"} -> result'.value # None
      [] OTHER -> FALSE

\* C17: delete_activity, delete_category, delete_tag, rename_category,
\* rename_tag and get_activity, called with an id that names no row, raise
\* nothing, leave the store unchanged, and return a value that differs from
\* what they return on success.
C17_NotFoundSentinel ==
    [][CalledWithMissingId
       => /\ result'.raised = "none"
          /\ UNCHANGED db
          /\ ~SuccessValue]_vars

\* C18: the duration a successful create returns is end - start in whole
\* minutes, the remainder below a minute dropped; it is computed from the
\* arguments, and the stored row has no duration field.
C18_DurationTruncated ==
    [][(call' = "log_activity" /\ result'.raised = "none")
       => LET seconds == args'.end_time - args'.start_time
              duration == result'.value[2]
          IN /\ duration * 60 <= seconds
             /\ seconds < duration * 60 + 60
             /\ \A a \in activities' :
                   DOMAIN a = {"id", "start_time", "end_time", "category_id", "notes"}]_vars

C18_Witness ==
    /\ call = "log_activity"
    /\ result.raised = "none"
    /\ args.end_time - args.start_time = Hm(0, 30) + 59
    /\ result.value[2] = 30
    /\ \E a \in activities :
          /\ a.id = result.value[1]
          /\ a.end_time - a.start_time = Hm(0, 30) + 59

\* The answers that say yes: y or yes, in either case, spaces around them.
AffirmativeAnswers ==
    {<<"y">>, <<"Y">>, <<" ", "y", " ">>, <<"y", "e", "s">>, <<"Y", "E", "S">>}

\* C19: delete_category is called only as the step after an "Are you sure?"
\* prompt (default No) of the same command that was answered with yes, for the
\* category the command was about; after any other answer, an empty one or a
\* cancel, the command deletes no category and no activity.
C19_ConfirmationGuard ==
    [][/\ call' = "delete_category"
          => /\ call = "prompt_yes_no"
             /\ args.prompt_text = "Are you sure?"
             /\ args.default = FALSE
             /\ args.val # None
             /\ args.val[1] \in AffirmativeAnswers
             /\ args'.category_id = args.target
       /\ (/\ call = "prompt_yes_no"
           /\ args.val = None \/ args.val[1] \notin AffirmativeAnswers)
          => /\ call' # "delete_category"
             /\ categories' = categories
             /\ activities' = activities]_vars

C19_Witness ==
    /\ call = "delete_category"
    /\ result.raised = "none"
    /\ result.value[1] = "Deleted category"
    /\ result.value[3] = 2
    /\ categories # {}
    /\ activities # {}

\* C20: after any sequence of log and edit commands of the command line, every
\* stored activity ends after it starts.
C20_EndAfterStart ==
    \A a \in activities : a.end_time > a.start_time

\* An edit moved the end of a chained entry to the next day.
C20_Witness ==
    /\ call = "update_activity"
    /\ result.raised = "none"
    /\ result.value = TRUE
    /\ args.start_time = None
    /\ \E a \in activities, b \in activities :
          /\ a.end_time = b.start_time
          /\ b.id = args.activity_id
          /\ Date(b.end_time) > Date(b.start_time)
          /\ b.end_time % 86400 < b.start_time % 86400

\* C21: a create one of whose tag ids names no stored tag raises the storage
\* layer's error to the caller and persists nothing of the call: no activity
\* row and no association, the ones written before the failing insert included.
C21_CreateAllOrNothing ==
    [][(/\ call' = "log_activity"
        /\ args'.category_id \in CategoryIds
        /\ \E i \in 1..Len(args'.tag_ids) : args'.tag_ids[i] \notin TagIds)
       => /\ result' = [raised |-> "ForeignKeyViolation", value |-> None]
          /\ activities' = activities
          /\ activity_tags' = activity_tags
          /\ \A at \in activity_tags' : at.activity_id # seq'.activities]_vars

\* A create with a stored tag first and a missing tag second has failed, on a
\* store that holds a tagged activity from before.
C21_Witness ==
    /\ call = "log_activity"
    /\ result.raised = "ForeignKeyViolation"
    /\ args.category_id \in CategoryIds
    /\ args.tag_ids = <<1, 3>>
    /\ 1 \in TagIds
    /\ 3 \notin TagIds
    /\ Cardinality(activities) = 1
    /\ activity_tags # {}
    /\ seq.activities = 2

\* The activity the edit command was about, before and after it.
Edited(acts) ==
    CHOOSE a \in acts : a.id = args'.activity_id

\* C22: an edit command whose Notes prompt is answered with nothing, on an
\* activity that has notes, stores no notes for it (the explicit clear); no
\* other answer of the command being given, nothing else of it changes.
C22_NotesCleared ==
    [][(/\ call' = "cmd_edit"
        /\ args'.answers = EnterOnly
        /\ Edited(activities).notes # None)
       => Edited(activities').notes = None]_vars

\* The rename was asked to give a stored row a name that another row of its
\* scope has, compared without case.
RenameCollides ==
    \/ /\ call' = "rename_category"
       /\ args'.category_id \in CategoryIds
       /\ CategoryNameTaken(Strip(args'.new_name), args'.category_id)
    \/ /\ call' = "rename_tag"
       /\ \E t \in tags : /\ t.id = args'.tag_id
                          /\ TagNameTaken(t.category_id, Strip(args'.new_name), t.id)

\* After the step two rows of one scope have the same name, compared without case.
TwoRowsOneName ==
    \/ \E c \in categories', d \in categories' : c.id # d.id /\ Norm(c.name) = Norm(d.name)
    \/ \E t \in tags', u \in tags' :
          t.id # u.id /\ t.category_id = u.category_id /\ Norm(t.name) = Norm(u.name)

ReportGroup(k) ==
    {a \in activities :
        /\ InRange(a, args.start_date, args.end_date)
        /\ CASE call = "report_daily" -> Date(a.start_time) = k
             [] call = "report_categories" -> a.category_id = k
             [] OTHER -> [activity_id |-> a.id, tag_id |-> k] \in activity_tags}

\* C24: in every row of every report (by day, by category, by tag)
\* total_minutes is the sum, over the activities of the row's group, of each
\* activity's seconds over 60 with the remainder dropped.
C24_RowsTruncatedThenSummed ==
    call \in {"report_daily", "report_categories", "report_tags"}
    => \A k \in DOMAIN result.value.rows :
          result.value.rows[k][2]
              = SumOver(ReportGroup(k),
                        [a \in ReportGroup(k) |-> (a.end_time - a.start_time) \div 60])

\* C25, the single-writer half: with one writer, whose creates run one after
\* another, a create on a store without overlaps leaves it without overlaps.
C25_SingleWriterKeepsNoOverlap ==
    [][(call' = "log_activity" /\ C1_NoOverlap)
       => \A a \in activities', b \in activities' :
              a.id # b.id => ~Overlapping(a, b)]_vars

C27_TagsOfOwnCategory ==
    \A at \in activity_tags :
        \E a \in activities, t \in tags :
            /\ a.id = at.activity_id
            /\ t.id = at.tag_id
            /\ t.category_id = a.category_id

\* C28: an edit command that is cancelled leaves the activity, its tags
\* included, as it was before the command: nothing of the command is stored
\* unless all of it is.
C28_EditAllOrNothing ==
    [][(call' = "cmd_edit" /\ result'.raised # "none")
       => /\ activities' = activities
          /\ activity_tags' = activity_tags]_vars

\* C29: an edit command in which a new date is entered and both time prompts
\* are left at their defaults passes update_activity the old times of day on
\* the new date; with the date left at its default too it passes no time.
C29_DateMovesDefaultTimes ==
    [][(/\ call' = "cmd_edit"
        /\ args'.update_activity # None
        /\ args'.answers.start_val = None
        /\ args'.answers.end_vals = <<None>>)
       => LET a == Edited(activities)
              passed == args'.update_activity[1]
              date_val == args'.answers.date_val
          IN IF date_val # None /\ date_val[1] # Date(a.start_time)
             THEN /\ passed.start_time
                        = Some(date_val[1] * 86400 + (a.start_time % 86400))
                  /\ passed.end_time
                        = Some(date_val[1] * 86400 + (a.end_time % 86400))
             ELSE /\ passed.start_time = None
                  /\ passed.end_time = None]_vars

\* C30: the loop of main ends only on EOF or KeyboardInterrupt: after any
\* other outcome of a command, a storage failure included, it is at its
\* prompt again.
C30_LoopEndsOnlyOnExit ==
    ~MainAtPrompt => result.raised \in MainBreaks

====
